---- MODULE Spec2Model ----
(***************************************************************************)
(* Model of src/media/mediaDownloader.py: the run started by main,         *)
(* download_playlist or download_single_video, the configuration of the    *)
(* transfer collaborator, the per-item loop of download_playlist with its  *)
(* progress hook, file resolution and tagging.                             *)
(*                                                                         *)
(* Text is a sequence of one-character strings; a locator is a sequence    *)
(* of lexical tokens (scheme, "www.", host, "/", ...), whose concatenation *)
(* is the string handed to the program.                                    *)
(***************************************************************************)
EXTENDS Integers, Sequences, FiniteSets, TLC

\* ------------------------------------------------------------------ bounds
\* Longest collection the metadata query returns with any mix of entries
\* (TwoEntries and ThreeEntries are returned as well).
MaxEntries == 1
\* Most Finished events the collaborator emits for one item.
MaxFinished == 2

\* ------------------------------------------------------- program constants
\* find_downloaded_file: title_part = sanitize_filename(title)[:20]
PrefixLen == 20
\* hook: progress_bar.set_description(f"... {filename[:40]}...")
DescLen == 40

\* ------------------------------------------------------------------- text
\* Python's None where a text is expected (no text holds a longer element),
\* and where an integer is expected
None == <<"None">>
NoneInt == 0 - 1
\* a dict key that is not there
Absent == 0 - 2

\* Characters are those of Latin-1, the range a string of this module can
\* hold.  str.isdigit(), str.isalpha() and str.isnumeric() follow Unicode:
\* the ASCII digits and letters and, above ASCII, the superscript digits, the
\* letters with diacritics and the fractions.
Digits == {"0", "1", "2", "3", "4", "5", "6", "7", "8", "9",
           "²", "³", "¹"}
Letters == {"a", "b", "c", "d", "e", "f", "g", "h", "i", "j", "k", "l", "m",
            "n", "o", "p", "q", "r", "s", "t", "u", "v", "w", "x", "y", "z",
            "A", "B", "C", "D", "E", "F", "G", "H", "I", "J", "K", "L", "M",
            "N", "O", "P", "Q", "R", "S", "T", "U", "V", "W", "X", "Y", "Z",
            "ª", "µ", "º", "À", "Á", "Â", "Ã", "Ä", "Å", "Æ", "Ç", "È", "É",
            "Ê", "Ë", "Ì", "Í", "Î", "Ï", "Ð", "Ñ", "Ò", "Ó", "Ô", "Õ", "Ö",
            "Ø", "Ù", "Ú", "Û", "Ü", "Ý", "Þ", "ß", "à", "á", "â", "ã", "ä",
            "å", "æ", "ç", "è", "é", "ê", "ë", "ì", "í", "î", "ï", "ð", "ñ",
            "ò", "ó", "ô", "õ", "ö", "ø", "ù", "ú", "û", "ü", "ý", "þ", "ÿ"}
\* numeric characters that are not digits
Numerics == {"¼", "½", "¾"}

\* str.isalnum() on one character
isalnum(c) == c \in Letters \cup Digits \cup Numerics

\* the characters sanitize_filename keeps: c.isalnum() or c in " .-_"
Kept(c) == isalnum(c) \/ c \in {" ", ".", "-", "_"}

RECURSIVE FilterKept(_)
FilterKept(s) ==
    IF s = <<>> THEN <<>>
    ELSE IF Kept(Head(s)) THEN <<Head(s)>> \o FilterKept(Tail(s))
         ELSE FilterKept(Tail(s))

\* str.rstrip(): after the filter the only whitespace left is the space
RECURSIVE rstrip(_)
rstrip(s) ==
    IF s = <<>> THEN <<>>
    ELSE IF s[Len(s)] = " " THEN rstrip(SubSeq(s, 1, Len(s) - 1))
         ELSE s

Unknown == <<"U", "n", "k", "n", "o", "w", "n">>

\* sanitize_filename(name): "Unknown" for None or "", else filter and rstrip
sanitize_filename(name) ==
    IF name = None \/ name = <<>> THEN Unknown
    ELSE rstrip(FilterKept(name))

\* s[:n]
Slice(s, n) == SubSeq(s, 1, IF Len(s) < n THEN Len(s) ELSE n)

\* str.endswith
endswith(s, suf) ==
    /\ Len(suf) <= Len(s)
    /\ SubSeq(s, Len(s) - Len(suf) + 1, Len(s)) = suf

\* `part in s` for strings
Contains(s, part) ==
    \E k \in 0..(Len(s) - Len(part)) : SubSeq(s, k + 1, k + Len(part)) = part

Digit(n) == <<"0", "1", "2", "3", "4", "5", "6", "7", "8", "9">>[n + 1]

\* f"{index:02d}" for 0 <= index < 100
Format02d(index) == <<Digit(index \div 10), Digit(index % 10)>>

Mp3 == <<"m", "p", "3">>
Mp4 == <<"m", "p", "4">>

\* f"{index:02d} - {sanitize_filename(title)}.{file_format}", or without the
\* index prefix when index is None
expected_name(title, index, file_format) ==
    IF index # NoneInt
    THEN Format02d(index) \o <<" ", "-", " ">> \o sanitize_filename(title)
             \o <<".">> \o file_format
    ELSE sanitize_filename(title) \o <<".">> \o file_format

\* get_ydl_opts: outtmpl = "{output_folder}/%(title)s.%(ext)s"; the name the
\* collaborator gives the file it produces for an item of this title
outtmpl(title, ext) == title \o <<".">> \o ext

\* ---------------------------------------------------------------- locator
Schemes == {"http://", "https://"}
Hosts1 == {"youtube.com", "youtu.be", "youtube"}
Hosts2 == {"music.youtube.com"}
\* tokens that begin with "/"
Slashed == {"/", "/playlist/"}

\* re.match of ^(https?://)?(www\.)?(<host>)/ against the token sequence
MatchHost(url, hosts) ==
    LET a == IF Len(url) >= 1 /\ url[1] \in Schemes THEN 1 ELSE 0
        b == IF Len(url) >= a + 1 /\ url[a + 1] = "www." THEN a + 1 ELSE a
    IN  /\ Len(url) >= b + 2
        /\ url[b + 1] \in hosts
        /\ url[b + 2] \in Slashed

validate_youtube_url(url) == MatchHost(url, Hosts1) \/ MatchHost(url, Hosts2)

is_playlist_url(url) ==
    \E k \in 1..Len(url) : url[k] \in {"list=", "/playlist/"}

\* ---------------------------------------------------------------- tagging
\* Python truthiness of an optional text or byte string, and of an optional int
TruthyText(v) == v # None /\ v # <<>>
TruthyInt(n) == n # NoneInt /\ n # 0

\* audiofile.initTag(version=(2, 3, 0)): a container with no field set
\* (track_num <<>>: no track position)
EmptyTag == [title |-> None, artist |-> None, album |-> None,
             track_num |-> <<>>, image |-> None]

\* A file of the directory: whether it carries a metadata container (has), the
\* container, and the item that produced the file (0: it was there before the run).
NewFile(producer) ==
    [exists |-> TRUE, has |-> FALSE, tag |-> EmptyTag, from |-> producer]

\* SetFields with the track position guarded by `if track_num:` alone.
SetFieldsTrackOnly(t, title, artist, album, track_num, total_tracks, image_bytes) ==
    [title     |-> IF TruthyText(title) THEN title ELSE t.title,
     artist    |-> IF TruthyText(artist) THEN artist ELSE t.artist,
     album     |-> IF TruthyText(album) THEN album ELSE t.album,
     track_num |-> IF TruthyInt(track_num)
                   THEN <<track_num, total_tracks>> ELSE t.track_num,
     image     |-> IF TruthyText(image_bytes) THEN image_bytes ELSE t.image]

\* The fields tag_mp3 sets on the loaded container before saving it.
SetFields(t, title, artist, album, track_num, total_tracks, image_bytes) ==
    [title     |-> IF TruthyText(title) THEN title ELSE t.title,
     artist    |-> IF TruthyText(artist) THEN artist ELSE t.artist,
     album     |-> IF TruthyText(album) THEN album ELSE t.album,
     track_num |-> IF TruthyInt(track_num) /\ TruthyInt(total_tracks)
                   THEN <<track_num, total_tracks>> ELSE t.track_num,
     image     |-> IF TruthyText(image_bytes) THEN image_bytes ELSE t.image]

\* tag_mp3 (a missing file is reported and left alone): lib is what the tag library does, "ok",
\* "unloadable" (eyed3.load returns None) or "raises" (load or save raises,
\* caught by the function).  Returns the function's result and the file as
\* it is on disk afterwards.
tag_mp3(file, title, artist, album, track_num, total_tracks, image_bytes, lib) ==
    IF ~file.exists \/ lib # "ok" THEN [ok |-> FALSE, file |-> file]
    ELSE [ok |-> TRUE,
          file |-> [file EXCEPT
                     !.has = TRUE,
                     !.tag = SetFields(IF file.has THEN file.tag ELSE EmptyTag,
                                       title, artist, album, track_num,
                                       total_tracks, image_bytes)]]

\* ------------------------------------------------------- file resolution
\* find_downloaded_file: the paths it can return (os.listdir yields the
\* directory in arbitrary order, so the fallback returns any matching file);
\* the empty set stands for the result None.  names is the directory.
find_downloaded_file(names, title, index, file_format) ==
    LET expected == expected_name(title, index, file_format)
        title_part == Slice(sanitize_filename(title), PrefixLen)
    IN  IF expected \in names THEN {expected}
        ELSE {f \in names :
                /\ endswith(f, <<".">> \o file_format)
                /\ Contains(sanitize_filename(f), title_part)}

\* ------------------------------------------------------------------ state
VARIABLES
    entry,            \* the function the run enters through
    url,              \* the locator (None: main run without an argument)
    file_format,      \* the file_format parameter (None: main has not parsed it)
    argv,             \* sys.argv[1:] of a run started by main
    env,              \* the environment os.getenv reads when the module loads
    quality,          \* the quality parameter
    output_folder,    \* the output_folder parameter
    pc,               \* position of the run
    exitCode,         \* sys.exit status of main (NoneInt: none yet, or no main)
    outcome,          \* what the run reported when it ended
    raised,           \* exception that left download_playlist/_single_video
    info,             \* result of the metadata query
    total_tracks,     \* len(info["entries"])
    pos,              \* 1-based position of the loop in info["entries"]
    downloaded_count, skipped_count, error_count,
    progress,         \* progress_bar.n
    description,      \* progress_bar description
    files,            \* the output folder: file name -> file
    calls,            \* calls made to the collaborators in this run
    nfinished,        \* Finished events received for the current item
    mp3_path,         \* result of find_downloaded_file for the current item
    produced,         \* whether the current item's transfer left its file
    succeeded,        \* items of this run whose transfer succeeded (see NextItem)
    previous,         \* the run before this one, when the batch is run again
    ydl_opts,         \* configuration built for the transfer collaborator
    sigint,           \* whether the user has interrupted this run
    tagIn, tagOut,    \* arguments and result of a direct tag_mp3 call
    arg, ret          \* argument and result of a direct call of another function

inputVars == <<entry, url, argv, env>>
paramVars == <<file_format, quality, output_folder>>
runVars == <<inputVars, paramVars>>
endVars == <<exitCode, outcome, raised>>
countVars == <<downloaded_count, skipped_count, error_count>>
loopVars == <<info, total_tracks, pos, progress, description, nfinished, mp3_path,
              produced, succeeded, previous, ydl_opts>>
tagVars == <<tagIn, tagOut, arg, ret>>
vars == <<runVars, pc, endVars, countVars, loopVars, files, calls, tagVars, sigint>>

\* ----------------------------------------------------------------- inputs
TitleA == <<"a">>
TitleAB == <<"a", "b">>
TitleQ == <<"?">>
Titles == {TitleA, TitleQ}
Album == <<"M", "i", "x">>
UnknownArtist == <<"U", "n", "k", "n", "o", "w", "n", " ",
                   "A", "r", "t", "i", "s", "t">>

\* a dict key that is not there, where a text is expected
NoKey == <<"NoKey">>
Bob == <<"B", "o", "b">>
Jpg == <<"j", "p", "g">>
ThumbUrl == <<"https://", "i.ytimg.com", "/", "x.jpg">>

\* An entry of info["entries"]: None (present FALSE), or a dict whose title
\* may be missing (None), whose playlist_index is its position k, None, or
\* missing, which has a "url" key or not, and an "uploader" key or not.
NoEntry == [present |-> FALSE, title |-> None, playlist_index |-> NoneInt,
            has_url |-> FALSE, uploader |-> NoKey]
Entries(k) ==
    {NoEntry}
    \cup [present : {TRUE}, title : {None}, playlist_index : {k},
          has_url : {TRUE}, uploader : {NoKey}]
    \cup [present : {TRUE}, title : {TitleA}, playlist_index : {k, NoneInt},
          has_url : {TRUE}, uploader : {NoKey}]
    \cup [present : {TRUE}, title : {TitleA}, playlist_index : {k},
          has_url : {FALSE}, uploader : {NoKey}]
    \cup [present : {TRUE}, title : {TitleA}, playlist_index : {k},
          has_url : {TRUE}, uploader : {Bob}]
    \cup [present : {TRUE}, title : {TitleQ}, playlist_index : {Absent},
          has_url : {TRUE}, uploader : {NoKey}]

RECURSIVE EntrySeqs(_)
EntrySeqs(n) ==
    IF n = 0 THEN {<<>>}
    ELSE {Append(s, e) : s \in EntrySeqs(n - 1), e \in Entries(n)}

\* Three entries of which the second has no title.
ThreeEntries ==
    <<[present |-> TRUE, title |-> TitleA, playlist_index |-> 1,
       has_url |-> TRUE, uploader |-> NoKey],
      [present |-> TRUE, title |-> None, playlist_index |-> 2,
       has_url |-> TRUE, uploader |-> NoKey],
      [present |-> TRUE, title |-> TitleA, playlist_index |-> 3,
       has_url |-> TRUE, uploader |-> NoKey]>>

\* Two titled entries.
TwoEntries ==
    <<[present |-> TRUE, title |-> TitleA, playlist_index |-> 1,
       has_url |-> TRUE, uploader |-> NoKey],
      [present |-> TRUE, title |-> TitleA, playlist_index |-> 2,
       has_url |-> TRUE, uploader |-> NoKey]>>

EntryLists ==
    UNION {EntrySeqs(n) : n \in 0..MaxEntries} \cup {TwoEntries, ThreeEntries}

UrlPlaylist == <<"https://", "www.", "youtube.com", "/", "playlist?", "list=", "PL1">>
UrlSingle == <<"https://", "music.youtube.com", "/", "watch?v=", "abc">>
UrlOtherHost == <<"https://", "vimeo.com", "/", "playlist?", "list=", "PL1">>
UrlLookalike == <<"youtube.com.example.org", "/", "watch?v=", "abc">>
UrlNoSlash == <<"www.", "youtu.be">>
UrlScheme == <<"ftp://", "youtube.com", "/", "watch?v=", "abc">>
Urls == {UrlPlaylist, UrlSingle, UrlOtherHost, UrlLookalike, UrlNoSlash, UrlScheme}

\* Output folders the run can find: empty, or holding the file of an
\* earlier run under the name the loop expects for title "a" at index 1, or
\* under the name download_single_video looks for with title "a".
InitialFolders(fmt) ==
    { <<>>,
      [n \in {expected_name(TitleA, 1, fmt)} |-> NewFile(0)],
      [n \in {expected_name(TitleA, NoneInt, fmt)} |-> NewFile(0)] }

\* The metadata and what the run derives from it before the transfer: art is
\* the album art (global_album_art, album_art) fetched for info["thumbnail"].
NoInfo == [status |-> "none", title |-> None, entries |-> <<>>,
           uploader |-> NoKey, art |-> None]

\* download_thumbnail(url): the response's content, or None when the request
\* fails (net is what the request does, "ok" or "fails")
download_thumbnail(thumb_url, net) == IF net = "ok" THEN Jpg ELSE None

\* download_thumbnail(thumb_url) if thumb_url and file_format == "mp3" else None
album_art(thumb_url, fmt, net) ==
    IF TruthyText(thumb_url) /\ fmt = Mp3 THEN download_thumbnail(thumb_url, net)
    ELSE None

\* entry.get("uploader", "Unknown Artist"), info.get("uploader", "Unknown Artist")
artist_of(e) == IF e.uploader = NoKey THEN UnknownArtist ELSE e.uploader

\* what the hook shows for a Downloading event: the arrow sign (two code
\* points, written "##" here), a space, the first DescLen characters of the
\* base name of the event's file, and "..."
Describe(filename) ==
    <<"#", "#", " ">> \o Slice(filename, DescLen) \o <<".", ".", ".">>

Webm == <<"w", "e", "b", "m">>
\* base names a Downloading event carries for an item of this title: the file
\* in its final or in its source format, or none (d.get("filename", ""))
EventNames(title, fmt) == {outtmpl(title, fmt), outtmpl(title, Webm), <<>>}
\* ------------------------------------- configuration of the transfer collaborator
\* Most optional arguments on the command line.
MaxArgs == 3

Low == <<"l", "o", "w">>
Medium == <<"m", "e", "d", "i", "u", "m">>
High == <<"h", "i", "g", "h">>
Tiers == {Low, Medium, High}

\* The environment: the value of each variable the module reads, NoKey for a
\* variable that is not set.
NoEnv == [DEFAULT_OUTPUT_FOLDER |-> NoKey, DEFAULT_QUALITY |-> NoKey,
          DEFAULT_FORMAT |-> NoKey]

\* os.getenv(name, default)
getenv(name, default) == IF env[name] = NoKey THEN default ELSE env[name]

DEFAULT_OUTPUT_FOLDER ==
    getenv("DEFAULT_OUTPUT_FOLDER", <<"d", "o", "w", "n", "l", "o", "a", "d", "s">>)
DEFAULT_QUALITY == getenv("DEFAULT_QUALITY", Medium)
DEFAULT_FORMAT == getenv("DEFAULT_FORMAT", Mp3)

\* the characters str.lower() changes, and what it changes them to
UpperCase == <<"A", "B", "C", "D", "E", "F", "G", "H", "I", "J", "K", "L", "M",
               "N", "O", "P", "Q", "R", "S", "T", "U", "V", "W", "X", "Y", "Z",
               "À", "Á", "Â", "Ã", "Ä", "Å", "Æ", "Ç", "È", "É", "Ê", "Ë", "Ì",
               "Í", "Î", "Ï", "Ð", "Ñ", "Ò", "Ó", "Ô", "Õ", "Ö", "Ø", "Ù", "Ú",
               "Û", "Ü", "Ý", "Þ">>
LowerCase == <<"a", "b", "c", "d", "e", "f", "g", "h", "i", "j", "k", "l", "m",
               "n", "o", "p", "q", "r", "s", "t", "u", "v", "w", "x", "y", "z",
               "à", "á", "â", "ã", "ä", "å", "æ", "ç", "è", "é", "ê", "ë", "ì",
               "í", "î", "ï", "ð", "ñ", "ò", "ó", "ô", "õ", "ö", "ø", "ù", "ú",
               "û", "ü", "ý", "þ">>

\* str.lower()
lower(s) ==
    [i \in 1..Len(s) |->
        IF \E k \in 1..Len(UpperCase) : UpperCase[k] = s[i]
        THEN LowerCase[CHOOSE k \in 1..Len(UpperCase) : UpperCase[k] = s[i]]
        ELSE s[i]]

\* main: for i in range(2, min(5, len(sys.argv))), over args = sys.argv[2:]
RECURSIVE ParseArgs(_, _, _)
ParseArgs(args, i, acc) ==
    IF i > Len(args) \/ i > 3 THEN acc
    ELSE LET a == lower(args[i])
         IN  ParseArgs(args, i + 1,
                 IF a \in {Mp3, Mp4} THEN [acc EXCEPT !.file_format = a]
                 ELSE IF a \in Tiers THEN [acc EXCEPT !.quality = a]
                 ELSE [acc EXCEPT !.output_folder = args[i]])

\* main: the parameters it hands on, after the validation of format and quality
main_params(args) ==
    LET parsed == ParseArgs(args, 1,
                      [file_format |-> DEFAULT_FORMAT, quality |-> DEFAULT_QUALITY,
                       output_folder |-> DEFAULT_OUTPUT_FOLDER])
        fmt == IF parsed.file_format \notin {Mp3, Mp4} THEN DEFAULT_FORMAT
               ELSE parsed.file_format
        q == IF parsed.quality \notin Tiers THEN DEFAULT_QUALITY ELSE parsed.quality
    IN  [parsed EXCEPT !.file_format = fmt, !.quality = q]

\* quality_map_audio.get(quality, "192")
quality_map_audio(q) ==
    IF q = Low THEN <<"128">>
    ELSE IF q = Medium THEN <<"192">>
    ELSE IF q = High THEN <<"320">>
    ELSE <<"192">>

\* get_ydl_opts: quality_map.get(preferred_quality, "best[height<=720]")
quality_map(preferred_quality) ==
    IF preferred_quality = Low THEN <<"best[height<=", "480", "]">>
    ELSE IF preferred_quality = Medium THEN <<"best[height<=", "720", "]">>
    ELSE IF preferred_quality = High THEN <<"best[height<=", "1080", "]">>
    ELSE <<"best[height<=", "720", "]">>

\* preferred_quality_playlist handing the tier on unmapped.
preferred_quality_unmapped(fmt, q) == q

\* download_playlist: preferred_quality
preferred_quality_playlist(fmt, q) ==
    IF fmt = Mp3 THEN quality_map_audio(q) ELSE q

\* download_single_video: preferred_quality
preferred_quality_single(fmt, q) ==
    IF fmt = Mp3 THEN quality_map_audio(q) ELSE q

\* get_ydl_opts(output_folder, preferred_quality, hook, is_playlist, file_format):
\* the options that depend on the arguments ("-" for a key that is not set);
\* a text of more than one token is the concatenation of its tokens
get_ydl_opts(preferred_quality, is_playlist, fmt) ==
    LET common == [noplaylist |-> ~is_playlist, ignoreerrors |-> TRUE,
                   format |-> <<"-">>, preferredcodec |-> <<"-">>,
                   preferredquality |-> <<"-">>, merge_output_format |-> <<"-">>]
    IN  IF fmt = Mp3
        THEN [common EXCEPT !.format = <<"bestaudio/best">>,
                            !.preferredcodec = Mp3,
                            !.preferredquality = preferred_quality]
        ELSE IF fmt = Mp4
        THEN [common EXCEPT !.format = quality_map(preferred_quality) \o <<"/best">>,
                            !.merge_output_format = Mp4]
        ELSE common

\* no configuration has been built
NoOpts == [noplaylist |-> FALSE, ignoreerrors |-> FALSE,
           format |-> None, preferredcodec |-> None,
           preferredquality |-> None, merge_output_format |-> None]

\* Optional command-line arguments: formats and tiers in either case, and a
\* folder name.
ArgPool == {<<"m", "p", "4">>, <<"M", "P", "3">>, Low, <<"H", "i", "g", "h">>,
            <<"d", "i", "r">>}

RECURSIVE ArgsOfLen(_)
ArgsOfLen(n) ==
    IF n = 0 THEN {<<>>}
    ELSE {Append(s, a) : s \in ArgsOfLen(n - 1), a \in ArgPool}

ArgLists == UNION {ArgsOfLen(n) : n \in 0..MaxArgs}

\* a quality that is in no table
Ultra == <<"u", "l", "t", "r", "a">>

NoRun == [ran |-> FALSE, entries |-> <<>>]
NoCalls == [metadata |-> 0, transfer |-> 0, tagging |-> 0]
NoTagCall == [ok |-> FALSE, file |-> NewFile(0)]
NoTagIn == [file |-> NewFile(0), title |-> None, artist |-> None, album |-> None,
            track_num |-> NoneInt, total_tracks |-> NoneInt,
            image_bytes |-> None, lib |-> "ok"]

\* Nothing has run yet.
Fresh ==
    /\ ydl_opts = NoOpts
    /\ sigint = FALSE
    /\ pc = entry
    /\ exitCode = NoneInt
    /\ outcome = "running"
    /\ raised = "none"
    /\ info = NoInfo
    /\ total_tracks = 0
    /\ pos = 0
    /\ downloaded_count = 0
    /\ skipped_count = 0
    /\ error_count = 0
    /\ progress = 0
    /\ description = <<>>
    /\ calls = NoCalls
    /\ nfinished = 0
    /\ mp3_path = None
    /\ produced = FALSE
    /\ succeeded = 0
    /\ previous = NoRun
    /\ tagIn = NoTagIn
    /\ tagOut = NoTagCall
    /\ arg = None
    /\ ret = None

\* Command lines of a run started by main: no argument, a locator, or a
\* locator and the format mp4.
MainArgvs == {<<>>} \cup {<<u>> : u \in Urls} \cup {<<u, Mp4>> : u \in Urls}

\* the optional arguments of the command line, sys.argv[2:]
OptionalArgs == IF argv = <<>> THEN <<>> ELSE Tail(argv)

\* A run started by main has its command line and parses its parameters
\* later; download_playlist and download_single_video are entered with a
\* locator, a format, and the defaults of their signature.
Init ==
    /\ entry \in {"main", "download_playlist", "download_single_video"}
    /\ env = NoEnv
    /\ IF entry = "main"
       THEN /\ argv \in MainArgvs
            /\ url = IF argv = <<>> THEN None ELSE argv[1]
            /\ file_format = None
            /\ quality = None
            /\ files \in InitialFolders(main_params(OptionalArgs).file_format)
       ELSE /\ argv = <<>>
            /\ url \in Urls
            /\ file_format \in {Mp3, Mp4}
            /\ quality = Medium
            /\ files \in InitialFolders(file_format)
    /\ output_folder = None
    /\ Fresh

\* -------------------------------------------------------------- run ends
\* The entered function returns: a run started by main falls off the end of
\* main and exits 0.
Return(what) ==
    /\ pc' = "exit"
    /\ outcome' = what
    /\ raised' = raised
    /\ exitCode' = IF entry = "main" THEN 0 ELSE NoneInt

\* An exception leaves the entered function: in a run started by main it
\* reaches the handlers of main's try block, a direct caller receives it.
Propagate(kind) ==
    /\ raised' = kind
    /\ IF entry = "main"
       THEN /\ pc' = "main_except"
            /\ UNCHANGED <<outcome, exitCode>>
       ELSE /\ pc' = "exit"
            /\ outcome' = IF kind = "KeyboardInterrupt" THEN "interrupted"
                          ELSE "unexpected"
            /\ exitCode' = NoneInt

\* ------------------------------------------------------------------- main
\* len(sys.argv) < 2: usage and sys.exit(1)
MainUsage ==
    /\ pc = "main" /\ Len(argv) < 1
    /\ pc' = "exit" /\ outcome' = "usage" /\ exitCode' = 1
    /\ UNCHANGED <<runVars, raised, countVars, loopVars, files, calls, tagVars, sigint>>

\* main reads format, quality and output folder from its optional arguments
\* and replaces a format or quality that is not valid by the default
MainParse ==
    LET params == main_params(OptionalArgs)
    IN  /\ file_format' = params.file_format
        /\ quality' = params.quality
        /\ output_folder' = params.output_folder

\* not validate_youtube_url(youtube_url): error and sys.exit(1)
MainInvalid ==
    /\ pc = "main" /\ Len(argv) >= 1
    /\ MainParse
    /\ ~validate_youtube_url(url)
    /\ pc' = "exit" /\ outcome' = "InvalidLocator" /\ exitCode' = 1
    /\ UNCHANGED <<inputVars, raised, countVars, loopVars, files, calls, tagVars, sigint>>

\* `except KeyboardInterrupt:` and `except Exception as e:` of main: the
\* report and sys.exit(1)
MainExcept ==
    /\ pc = "main_except"
    /\ pc' = "exit"
    /\ outcome' = IF raised = "KeyboardInterrupt" THEN "interrupted"
                  ELSE "unexpected"
    /\ exitCode' = 1
    /\ UNCHANGED <<runVars, raised, countVars, loopVars, files, calls, tagVars, sigint>>

\* main hands the run to download_playlist or download_single_video
MainDispatch ==
    /\ pc = "main" /\ Len(argv) >= 1
    /\ MainParse
    /\ validate_youtube_url(url)
    /\ pc' = IF is_playlist_url(url) THEN "download_playlist"
             ELSE "download_single_video"
    /\ UNCHANGED <<inputVars, endVars, countVars, loopVars, files, calls, tagVars, sigint>>

\* ------------------------------------------------------ download_playlist
\* not validate_youtube_url(playlist_url): report and return
PlaylistInvalid ==
    /\ pc = "download_playlist"
    /\ ~validate_youtube_url(url)
    /\ Return("InvalidLocator")
    /\ UNCHANGED <<runVars, countVars, loopVars, files, calls, tagVars, sigint>>

\* PlaylistValidate without the check of the locator.
PlaylistValidateAny ==
    /\ pc = "download_playlist"
    /\ pc' = "resolving"
    /\ UNCHANGED <<runVars, endVars, countVars, loopVars, files, calls, tagVars, sigint>>

\* the locator is valid: go on to the metadata query
PlaylistValidate ==
    /\ pc = "download_playlist"
    /\ validate_youtube_url(url)
    /\ pc' = "resolving"
    /\ UNCHANGED <<runVars, endVars, countVars, loopVars, files, calls, tagVars, sigint>>

\* PlaylistMetadataFails without the return: the run goes on to the loop
\* over no entries.
PlaylistMetadataFailsGoesOn ==
    /\ pc = "resolving"
    /\ \E how \in {"raises", "nothing", "no entries"} :
          info' = [NoInfo EXCEPT !.status = how]
    /\ calls' = [calls EXCEPT !.metadata = @ + 1]
    /\ pc' = "loop"
    /\ pos' = 1
    /\ UNCHANGED <<runVars, endVars, countVars, total_tracks, progress, description,
                   nfinished, mp3_path, produced, succeeded, previous, ydl_opts, files, tagVars, sigint>>

\* meta_ydl.extract_info raises, returns None, or returns a dict without
\* "entries": report and return
PlaylistMetadataFails ==
    /\ pc = "resolving"
    /\ \E how \in {"raises", "nothing", "no entries"} :
          info' = [NoInfo EXCEPT !.status = how]
    /\ calls' = [calls EXCEPT !.metadata = @ + 1]
    /\ Return("MetadataUnavailable")
    /\ UNCHANGED <<runVars, countVars, total_tracks, pos, progress, description,
                   nfinished, mp3_path, produced, succeeded, previous, ydl_opts, files, tagVars, sigint>>

\* extract_info returns the collection: title, folder, album art, progress
\* bar, counters and the collaborator's configuration are set up and the loop
\* starts
PlaylistMetadataOk ==
    /\ pc = "resolving"
    /\ \E es \in EntryLists :
          /\ previous.ran => es = previous.entries
          /\ \E thumb_url \in {None, <<>>, ThumbUrl}, net \in {"ok", "fails"} :
                info' = [status |-> "ok", title |-> Album, entries |-> es,
                         uploader |-> NoKey,
                         art |-> album_art(thumb_url, file_format, net)]
          /\ total_tracks' = Len(es)
    /\ calls' = [calls EXCEPT !.metadata = @ + 1]
    /\ pos' = 1
    /\ succeeded' = 0
    /\ downloaded_count' = 0 /\ skipped_count' = 0 /\ error_count' = 0
    /\ progress' = 0
    /\ ydl_opts' = get_ydl_opts(preferred_quality_playlist(file_format, quality),
                                TRUE, file_format)
    /\ pc' = "loop"
    /\ UNCHANGED <<runVars, endVars, description, nfinished, mp3_path, produced,
                   previous, files, tagVars, sigint>>

\* the entry the loop is at
Cur == info.entries[pos]
AtItem == pc = "loop" /\ pos <= total_tracks
Titled(e) == e.present /\ TruthyText(e.title)
\* entry.get("playlist_index", 0)
IndexOf(e) == IF e.playlist_index = Absent THEN 0 ELSE e.playlist_index
ExpectedPath == expected_name(Cur.title, IndexOf(Cur), file_format)

\* NextItem passing over the entry that follows.
NextItemSkipsOne(how) ==
    /\ pos' = pos + 2
    /\ pc' = "loop"
    /\ nfinished' = 0
    /\ mp3_path' = None
    /\ produced' = FALSE
    /\ succeeded' = IF how = "done" /\ nfinished = 1 /\ produced
                    THEN succeeded + 1 ELSE succeeded
    /\ UNCHANGED <<previous, ydl_opts>>

\* The loop goes on to the next entry.  An item's transfer has succeeded
\* when the collaborator reported Finished once for it and left its file,
\* and nothing raised before the loop took the next entry (how = "done").
NextItem(how) ==
    /\ pos' = pos + 1
    /\ pc' = "loop"
    /\ nfinished' = 0
    /\ mp3_path' = None
    /\ produced' = FALSE
    /\ succeeded' = IF how = "done" /\ nfinished = 1 /\ produced
                    THEN succeeded + 1 ELSE succeeded
    /\ UNCHANGED <<previous, ydl_opts>>

\* InvalidEntry counting the entry as skipped instead of as an error.
InvalidEntryCountedSkipped ==
    /\ AtItem
    /\ ~Titled(Cur)
    /\ skipped_count' = skipped_count + 1
    /\ pc' = "update"
    /\ UNCHANGED <<runVars, endVars, downloaded_count, error_count, loopVars,
                   files, calls, tagVars, sigint>>

\* `not entry or not entry.get("title")`: error_count += 1; the bar is
\* advanced by the statement that follows (UpdateBar)
InvalidEntry ==
    /\ AtItem
    /\ ~Titled(Cur)
    /\ error_count' = error_count + 1
    /\ pc' = "update"
    /\ UNCHANGED <<runVars, endVars, downloaded_count, skipped_count, loopVars,
                   files, calls, tagVars, sigint>>

\* progress_bar.update(1) and `continue`, after an invalid or an existing
\* entry was counted
UpdateBar ==
    /\ pc = "update"
    /\ progress' = progress + 1
    /\ NextItem("passed over")
    /\ UNCHANGED <<runVars, endVars, countVars, info, total_tracks, description,
                   files, calls, tagVars, sigint>>

\* f"{index:02d} ..." with index None raises TypeError before the try block
ExpectedNameRaises ==
    /\ AtItem
    /\ Titled(Cur)
    /\ IndexOf(Cur) = NoneInt
    /\ Propagate("Exception")
    /\ UNCHANGED <<runVars, countVars, loopVars, files, calls, tagVars, sigint>>

\* os.path.exists(expected_path): skipped_count += 1; the bar is advanced by
\* the statement that follows (UpdateBar)
SkipExisting ==
    /\ AtItem
    /\ Titled(Cur)
    /\ IndexOf(Cur) # NoneInt
    /\ ExpectedPath \in DOMAIN files
    /\ skipped_count' = skipped_count + 1
    /\ pc' = "update"
    /\ UNCHANGED <<runVars, endVars, downloaded_count, error_count, loopVars,
                   files, calls, tagVars, sigint>>

\* entry["url"] raises KeyError inside the try block, before ydl.download is
\* entered: caught, error_count += 1
UrlMissing ==
    /\ AtItem
    /\ Titled(Cur)
    /\ IndexOf(Cur) # NoneInt
    /\ ExpectedPath \notin DOMAIN files
    /\ ~Cur.has_url
    /\ error_count' = error_count + 1
    /\ NextItem("no url")
    /\ UNCHANGED <<runVars, endVars, downloaded_count, skipped_count, info,
                   total_tracks, progress, description, files, calls, tagVars, sigint>>

\* StartTransfer without the check that the expected file is not there.
StartTransferUnguarded ==
    /\ AtItem
    /\ Titled(Cur)
    /\ IndexOf(Cur) # NoneInt
    /\ Cur.has_url
    /\ pc' = "transfer"
    /\ calls' = [calls EXCEPT !.transfer = @ + 1]
    /\ UNCHANGED <<runVars, endVars, countVars, loopVars, files, tagVars, sigint>>

\* ydl.download([entry["url"]]) is entered
StartTransfer ==
    /\ AtItem
    /\ Titled(Cur)
    /\ IndexOf(Cur) # NoneInt
    /\ ExpectedPath \notin DOMAIN files
    /\ Cur.has_url
    /\ pc' = "transfer"
    /\ calls' = [calls EXCEPT !.transfer = @ + 1]
    /\ UNCHANGED <<runVars, endVars, countVars, loopVars, files, tagVars, sigint>>

\* hook, status "downloading": the bar's description is set
HookDownloading ==
    /\ pc = "transfer"
    /\ \E filename \in EventNames(Cur.title, file_format) :
          description' = Describe(filename)
    /\ UNCHANGED <<runVars, pc, endVars, countVars, info, total_tracks, pos,
                   progress, nfinished, mp3_path, produced, succeeded, previous, ydl_opts, files,
                   calls, tagVars, sigint>>

\* get_file_size_mb(file_path), called by the hooks: its bare `except:`
\* catches whatever is raised inside it, KeyboardInterrupt included, and the
\* hook goes on (signal is what arrives while it runs).
get_file_size_mb(signal) ==
    sigint' = (sigint \/ signal = "KeyboardInterrupt")

\* hook, status "finished": downloaded_count += 1, then the file's size is
\* read and reported
HookFinished ==
    /\ pc = "transfer"
    /\ nfinished < MaxFinished
    /\ nfinished' = nfinished + 1
    /\ downloaded_count' = downloaded_count + 1
    /\ \E signal \in {"none", "KeyboardInterrupt"} : get_file_size_mb(signal)
    /\ UNCHANGED <<runVars, pc, endVars, skipped_count, error_count, info,
                   total_tracks, pos, progress, description, mp3_path, produced,
                   succeeded, previous, ydl_opts, files, calls, tagVars>>

\* ydl.download returns without raising ("ignoreerrors": True): the file was
\* produced under the collaborator's name, or the failure was swallowed
TransferReturns ==
    /\ pc = "transfer"
    /\ \E left \in BOOLEAN :
          /\ produced' = left
          /\ files' = IF left
                      THEN [n \in DOMAIN files \cup {outtmpl(Cur.title, file_format)} |->
                              IF n = outtmpl(Cur.title, file_format)
                              THEN NewFile(pos) ELSE files[n]]
                      ELSE files
    /\ pc' = "locate"
    /\ UNCHANGED <<runVars, endVars, countVars, info, total_tracks, pos, progress,
                   description, nfinished, mp3_path, succeeded, previous, ydl_opts, calls, tagVars, sigint>>

\* ydl.download raises: caught, error_count += 1
TransferRaises ==
    /\ pc = "transfer"
    /\ error_count' = error_count + 1
    /\ NextItem("transfer raised")
    /\ UNCHANGED <<runVars, endVars, downloaded_count, skipped_count, info,
                   total_tracks, progress, description, files, calls, tagVars, sigint>>

\* LocateFile counting an error when no file is found.
LocateFileUnfoundIsError ==
    /\ pc = "locate"
    /\ LET found == find_downloaded_file(DOMAIN files, Cur.title, IndexOf(Cur),
                                         file_format)
       IN  \/ /\ file_format = Mp3
              /\ \E f \in found : mp3_path' = f
              /\ pc' = "tag"
              /\ UNCHANGED <<pos, nfinished, produced, succeeded, previous, ydl_opts, error_count>>
           \/ /\ file_format # Mp3 \/ found = {}
              /\ error_count' = error_count + 1
              /\ NextItem("done")
    /\ UNCHANGED <<runVars, endVars, downloaded_count, skipped_count, info,
                   total_tracks, progress, description, files, calls, tagVars, sigint>>

\* find_downloaded_file returns: an mp3 that was found goes on to tagging,
\* anything else ends the item
LocateFile ==
    /\ pc = "locate"
    /\ LET found == find_downloaded_file(DOMAIN files, Cur.title, IndexOf(Cur),
                                         file_format)
       IN  \/ /\ file_format = Mp3
              /\ \E f \in found : mp3_path' = f
              /\ pc' = "tag"
              /\ UNCHANGED <<pos, nfinished, produced, succeeded, previous, ydl_opts>>
           \/ /\ file_format # Mp3 \/ found = {}
              /\ NextItem("done")
    /\ UNCHANGED <<runVars, endVars, countVars, info, total_tracks, progress,
                   description, files, calls, tagVars, sigint>>

\* find_downloaded_file raises (os.listdir): caught, error_count += 1
LocateRaises ==
    /\ pc = "locate"
    /\ error_count' = error_count + 1
    /\ NextItem("locate raised")
    /\ UNCHANGED <<runVars, endVars, downloaded_count, skipped_count, info,
                   total_tracks, progress, description, files, calls, tagVars, sigint>>

\* TagItem counting an error when tag_mp3 fails.
TagItemFailureCounted ==
    /\ pc = "tag"
    /\ \E lib \in {"ok", "unloadable", "raises"} :
          /\ files' = [files EXCEPT ![mp3_path] =
                         tag_mp3(@, Cur.title, artist_of(Cur), info.title,
                                 IndexOf(Cur), total_tracks, info.art, lib).file]
          /\ error_count' = IF lib = "ok" THEN error_count ELSE error_count + 1
    /\ NextItem("done")
    /\ calls' = [calls EXCEPT !.tagging = @ + 1]
    /\ UNCHANGED <<runVars, endVars, downloaded_count, skipped_count, info,
                   total_tracks, progress, description, tagVars, sigint>>

\* tag_mp3(mp3_path, title, artist, album, index, total_tracks, art)
TagItem ==
    /\ pc = "tag"
    /\ \E lib \in {"ok", "unloadable", "raises"} :
          files' = [files EXCEPT ![mp3_path] =
                      tag_mp3(@, Cur.title, artist_of(Cur), info.title,
                              IndexOf(Cur), total_tracks, info.art, lib).file]
    /\ NextItem("done")
    /\ calls' = [calls EXCEPT !.tagging = @ + 1]
    /\ UNCHANGED <<runVars, endVars, countVars, info, total_tracks, progress,
                   description, tagVars, sigint>>

SingleTrack == <<"S", "i", "n", "g", "l", "e", " ", "T", "r", "a", "c", "k">>

UnknownTitle == <<"U", "n", "k", "n", "o", "w", "n", " ", "T", "i", "t", "l", "e">>

\* info.get("title", "Unknown Title")
title_of(i) == IF i.title = NoKey THEN UnknownTitle ELSE i.title

\* video_title = sanitize_filename(info.get("title", "Unknown Title"))
video_title == sanitize_filename(title_of(info))

\* The call the run is about to make or is inside at pc, when that call is
\* not counted yet: the metadata query or the tagging call.
PendingCall ==
    IF pc \in {"resolving", "resolving_single"} THEN "metadata"
    ELSE IF pc \in {"tag", "single_tag"} THEN "tagging"
    ELSE "none"

\* The folder once the tagging call the run is at has saved the file, in
\* download_playlist or in download_single_video.
TaggedFiles ==
    IF pc = "tag"
    THEN [files EXCEPT ![mp3_path] =
            tag_mp3(@, Cur.title, artist_of(Cur), info.title,
                    IndexOf(Cur), total_tracks, info.art, "ok").file]
    ELSE [files EXCEPT ![mp3_path] =
            tag_mp3(@, video_title, artist_of(info), SingleTrack,
                    NoneInt, NoneInt, info.art, "ok").file]

\* KeyboardInterrupt at any line of main, download_playlist or
\* download_single_video outside get_file_size_mb: no `except Exception`
\* catches it.  Raised inside the
\* call in progress, the call has been entered, and a tagging call may have
\* saved the file already.  Raised in main before its try block, or while
\* main handles what left the entered function, it leaves main without
\* reaching sys.exit(1).
Interrupt ==
    /\ pc \in {"main", "main_except", "download_playlist", "resolving", "loop",
               "update", "transfer", "locate", "tag", "download_single_video",
               "resolving_single", "single", "single_transfer", "single_locate",
               "single_tag"}
    /\ \E inside \in BOOLEAN, saved \in BOOLEAN :
          /\ calls' = IF inside /\ PendingCall # "none"
                      THEN [calls EXCEPT ![PendingCall] = @ + 1]
                      ELSE calls
          /\ files' = IF inside /\ saved /\ PendingCall = "tagging"
                      THEN TaggedFiles ELSE files
    /\ IF pc \in {"main", "main_except"}
       THEN /\ pc' = "exit"
            /\ outcome' = "interrupted"
            /\ raised' = "KeyboardInterrupt"
            /\ exitCode' = NoneInt
       ELSE Propagate("KeyboardInterrupt")
    /\ sigint' = TRUE
    /\ UNCHANGED <<runVars, countVars, loopVars, tagVars>>

\* the loop is over: progress_bar.close() and the final summary
Summary ==
    /\ pc = "loop"
    /\ pos > total_tracks
    /\ Return("summary")
    /\ UNCHANGED <<runVars, countVars, loopVars, files, calls, tagVars, sigint>>

\* -------------------------------------------------- download_single_video
\* not validate_youtube_url(video_url): report and return
SingleInvalid ==
    /\ pc = "download_single_video"
    /\ ~validate_youtube_url(url)
    /\ Return("InvalidLocator")
    /\ UNCHANGED <<runVars, countVars, loopVars, files, calls, tagVars, sigint>>

SingleValidate ==
    /\ pc = "download_single_video"
    /\ validate_youtube_url(url)
    /\ pc' = "resolving_single"
    /\ UNCHANGED <<runVars, endVars, countVars, loopVars, files, calls, tagVars, sigint>>

\* extract_info raises or returns None: report and return
SingleMetadataFails ==
    /\ pc = "resolving_single"
    /\ \E how \in {"raises", "nothing"} : info' = [NoInfo EXCEPT !.status = how]
    /\ calls' = [calls EXCEPT !.metadata = @ + 1]
    /\ Return("MetadataUnavailable")
    /\ UNCHANGED <<runVars, countVars, total_tracks, pos, progress, description,
                   nfinished, mp3_path, produced, succeeded, previous, ydl_opts, files, tagVars, sigint>>

\* extract_info returns the video's metadata
SingleMetadataOk ==
    /\ pc = "resolving_single"
    /\ \E t \in Titles \cup {NoKey}, u \in {NoKey, Bob},
          thumb_url \in {None, <<>>, ThumbUrl}, net \in {"ok", "fails"} :
          info' = [status |-> "ok", title |-> t, entries |-> <<>>, uploader |-> u,
                   art |-> album_art(thumb_url, file_format, net)]
    /\ calls' = [calls EXCEPT !.metadata = @ + 1]
    /\ pc' = "single"
    /\ UNCHANGED <<runVars, endVars, countVars, total_tracks, pos, progress,
                   description, nfinished, mp3_path, produced, succeeded, previous, ydl_opts,
                   files, tagVars, sigint>>

\* folder, album art and options are set up; ydl.download([video_url]) is
\* entered
SingleStartTransfer ==
    /\ pc = "single"
    /\ ydl_opts' = get_ydl_opts(preferred_quality_single(file_format, quality),
                                FALSE, file_format)
    /\ pc' = "single_transfer"
    /\ calls' = [calls EXCEPT !.transfer = @ + 1]
    /\ UNCHANGED <<runVars, endVars, countVars, info, total_tracks, pos, progress,
                   description, nfinished, mp3_path, produced, succeeded, previous,
                   files, tagVars, sigint>>

\* hook of download_single_video, status "downloading"
SingleHookDownloading ==
    /\ pc = "single_transfer"
    /\ \E filename \in EventNames(title_of(info), file_format) :
          description' = Describe(filename)
    /\ UNCHANGED <<runVars, pc, endVars, countVars, info, total_tracks, pos,
                   progress, nfinished, mp3_path, produced, succeeded, previous, ydl_opts, files,
                   calls, tagVars, sigint>>

\* hook of download_single_video, status "finished": the file's size is read
\* and reported
SingleHookFinished ==
    /\ pc = "single_transfer"
    /\ \E signal \in {"none", "KeyboardInterrupt"} : get_file_size_mb(signal)
    /\ UNCHANGED <<runVars, pc, endVars, countVars, loopVars, files, calls,
                   tagVars>>

\* ydl.download([video_url]) returns: the file was produced under the
\* collaborator's name, or the failure was swallowed
SingleTransferReturns ==
    /\ pc = "single_transfer"
    /\ \E left \in BOOLEAN :
          files' = IF left
                   THEN [n \in DOMAIN files \cup {outtmpl(title_of(info), file_format)} |->
                           IF n = outtmpl(title_of(info), file_format)
                           THEN NewFile(1) ELSE files[n]]
                   ELSE files
    /\ pc' = "single_locate"
    /\ UNCHANGED <<runVars, endVars, countVars, loopVars, calls, tagVars, sigint>>

\* ydl.download raises: caught and reported, then the closing report
SingleTransferRaises ==
    /\ pc = "single_transfer"
    /\ Return("completed")
    /\ UNCHANGED <<runVars, countVars, loopVars, files, calls, tagVars, sigint>>

\* find_downloaded_file(output_folder, video_title, file_format=...)
SingleLocate ==
    /\ pc = "single_locate"
    /\ LET found == find_downloaded_file(DOMAIN files, video_title, NoneInt,
                                         file_format)
       IN  \/ /\ file_format = Mp3
              /\ \E f \in found : mp3_path' = f
              /\ pc' = "single_tag"
              /\ UNCHANGED endVars
           \/ /\ file_format # Mp3 \/ found = {}
              /\ Return("completed")
              /\ UNCHANGED mp3_path
    /\ UNCHANGED <<runVars, countVars, info, total_tracks, pos, progress,
                   description, nfinished, produced, succeeded, previous, ydl_opts, files, calls,
                   tagVars, sigint>>

\* find_downloaded_file raises (os.listdir): caught and reported, then the
\* closing report
SingleLocateRaises ==
    /\ pc = "single_locate"
    /\ Return("completed")
    /\ UNCHANGED <<runVars, countVars, loopVars, files, calls, tagVars, sigint>>

\* tag_mp3(mp3_path, title=video_title, artist, album="Single Track", art)
SingleTag ==
    /\ pc = "single_tag"
    /\ \E lib \in {"ok", "unloadable", "raises"} :
          files' = [files EXCEPT ![mp3_path] =
                      tag_mp3(@, video_title, artist_of(info), SingleTrack,
                              NoneInt, NoneInt, info.art, lib).file]
    /\ calls' = [calls EXCEPT !.tagging = @ + 1]
    /\ Return("completed")
    /\ UNCHANGED <<runVars, countVars, loopVars, tagVars, sigint>>

\* ---------------------------------------------------------- specification
Next ==
    \/ MainUsage \/ MainInvalid \/ MainDispatch \/ MainExcept
    \/ PlaylistInvalid \/ PlaylistValidate
    \/ PlaylistMetadataFails \/ PlaylistMetadataOk
    \/ InvalidEntry \/ ExpectedNameRaises \/ SkipExisting \/ UpdateBar
    \/ UrlMissing \/ StartTransfer
    \/ HookDownloading \/ HookFinished
    \/ TransferReturns \/ TransferRaises
    \/ LocateFile \/ LocateRaises \/ TagItem
    \/ Interrupt \/ Summary
    \/ SingleInvalid \/ SingleValidate
    \/ SingleMetadataFails \/ SingleMetadataOk
    \/ SingleStartTransfer
    \/ SingleHookDownloading \/ SingleHookFinished
    \/ SingleTransferReturns \/ SingleTransferRaises
    \/ SingleLocate \/ SingleLocateRaises \/ SingleTag

Spec == Init /\ [][Next]_vars

\* ------------------------------------------------- the batch is run again
\* After a run of download_playlist that downloaded every item of a
\* non-empty collection, the same locator is run again against the same
\* folder: the metadata query returns the same collection, the files stay.
Rerun ==
    /\ pc = "exit" /\ outcome = "summary"
    /\ ~previous.ran
    /\ total_tracks > 0
    /\ succeeded = total_tracks
    /\ previous' = [ran |-> TRUE, entries |-> info.entries]
    /\ pc' = entry
    /\ exitCode' = NoneInt /\ outcome' = "running" /\ raised' = "none"
    /\ info' = NoInfo
    /\ total_tracks' = 0 /\ pos' = 0
    /\ downloaded_count' = 0 /\ skipped_count' = 0 /\ error_count' = 0
    /\ progress' = 0 /\ description' = <<>>
    /\ nfinished' = 0 /\ mp3_path' = None /\ produced' = FALSE /\ succeeded' = 0
    /\ calls' = NoCalls
    /\ ydl_opts' = NoOpts
    /\ sigint' = FALSE
    /\ IF entry = "main"
       THEN file_format' = None /\ quality' = None /\ output_folder' = None
       ELSE UNCHANGED paramVars
    /\ UNCHANGED <<inputVars, files, tagVars>>

NextRerun == Next \/ Rerun

SpecRerun == Init /\ [][NextRerun]_vars

\* ------------------------------------------------ tag_mp3 called directly
TagFiles ==
    {[exists |-> e, has |-> FALSE, tag |-> EmptyTag, from |-> 0] : e \in BOOLEAN}
    \cup {[exists |-> TRUE, has |-> TRUE, from |-> 0,
           tag |-> [title |-> TitleAB, artist |-> None, album |-> Album,
                    track_num |-> t, image |-> None]] : t \in {<<>>, <<1, 2>>}}

TagInputs ==
    [file : TagFiles,
     title : {None, <<>>, TitleA},
     artist : {None, UnknownArtist},
     album : {None, Album},
     track_num : {NoneInt, 0, 1, 3},
     total_tracks : {NoneInt, 0, 3},
     image_bytes : {None, <<"j", "p", "g">>},
     lib : {"ok", "unloadable", "raises"}]

InitTag ==
    /\ entry = "tag_mp3"
    /\ url = None
    /\ file_format = Mp3
    /\ argv = <<>>
    /\ env = NoEnv
    /\ quality = Medium
    /\ output_folder = None
    /\ ydl_opts = NoOpts
    /\ sigint = FALSE
    /\ pc = "tag_mp3"
    /\ exitCode = NoneInt
    /\ outcome = "running"
    /\ raised = "none"
    /\ info = NoInfo
    /\ total_tracks = 0
    /\ pos = 0
    /\ downloaded_count = 0
    /\ skipped_count = 0
    /\ error_count = 0
    /\ progress = 0
    /\ description = <<>>
    /\ files = <<>>
    /\ calls = NoCalls
    /\ nfinished = 0
    /\ mp3_path = None
    /\ produced = FALSE
    /\ succeeded = 0
    /\ previous = NoRun
    /\ tagIn \in TagInputs
    /\ tagOut = NoTagCall
    /\ arg = None
    /\ ret = None

\* tag_mp3(file_path, title, artist, album, track_num, total_tracks, image_bytes)
CallTag ==
    /\ pc = "tag_mp3"
    /\ tagOut' = tag_mp3(tagIn.file, tagIn.title, tagIn.artist, tagIn.album,
                         tagIn.track_num, tagIn.total_tracks,
                         tagIn.image_bytes, tagIn.lib)
    /\ pc' = "exit"
    /\ outcome' = "returned"
    /\ UNCHANGED <<runVars, exitCode, raised, countVars, loopVars, files, calls,
                   tagIn, arg, ret, sigint>>

SpecTag == InitTag /\ [][CallTag]_vars

\* ------------------------------------------- sanitize_filename called directly
\* Longest name handed to sanitize_filename.
MaxName == 3

\* Every variable of a run is at rest while function fn is called directly.
Direct(fn) ==
    /\ entry = fn
    /\ url = None
    /\ file_format = Mp3
    /\ argv = <<>>
    /\ env = NoEnv
    /\ quality = Medium
    /\ output_folder = None
    /\ ydl_opts = NoOpts
    /\ sigint = FALSE
    /\ pc = fn
    /\ exitCode = NoneInt
    /\ outcome = "running"
    /\ raised = "none"
    /\ info = NoInfo
    /\ total_tracks = 0
    /\ pos = 0
    /\ downloaded_count = 0
    /\ skipped_count = 0
    /\ error_count = 0
    /\ progress = 0
    /\ description = <<>>
    /\ files = <<>>
    /\ calls = NoCalls
    /\ nfinished = 0
    /\ mp3_path = None
    /\ produced = FALSE
    /\ succeeded = 0
    /\ previous = NoRun
    /\ tagIn = NoTagIn
    /\ tagOut = NoTagCall

\* the directly called function returns
Returned ==
    /\ pc' = "exit"
    /\ outcome' = "returned"
    /\ UNCHANGED <<runVars, exitCode, raised, countVars, loopVars, files, calls,
                   tagIn, tagOut, arg, sigint>>

\* Characters of the names: two letters, a digit, the space, the dot, and two
\* characters that are not kept.
NameChars == {"a", "é", "7", " ", ".", "?", "/"}

RECURSIVE NamesOfLen(_)
NamesOfLen(n) ==
    IF n = 0 THEN {<<>>}
    ELSE {Append(s, c) : s \in NamesOfLen(n - 1), c \in NameChars}

Names == UNION {NamesOfLen(n) : n \in 0..MaxName} \cup {None}

InitSanitize ==
    /\ Direct("sanitize_filename")
    /\ arg \in Names
    /\ ret = None

\* sanitize_filename(name)
CallSanitize ==
    /\ pc = "sanitize_filename"
    /\ ret' = sanitize_filename(arg)
    /\ Returned

SpecSanitize == InitSanitize /\ [][CallSanitize]_vars

\* ------------------------------ runs over command lines, tiers and environments
\* Environments of a run started by main: nothing set, the defaults set to
\* other values main accepts, the defaults set to values it does not accept.
Envs ==
    {NoEnv,
     [DEFAULT_OUTPUT_FOLDER |-> <<"d", "i", "r">>, DEFAULT_QUALITY |-> High,
      DEFAULT_FORMAT |-> Mp4],
     [DEFAULT_OUTPUT_FOLDER |-> NoKey, DEFAULT_QUALITY |-> Ultra,
      DEFAULT_FORMAT |-> Webm]}

\* Four optional arguments: main reads the first three.
FourArgs == <<<<"d", "i", "r">>, Low, Mp4, <<"H", "i", "g", "h">>>>

\* Command lines: none, a locator of another host, the locator of a video with
\* every list of optional arguments and with FourArgs, the locator of a
\* collection with format and tier.
OptsArgvs ==
    {<<>>, <<UrlOtherHost>>, <<UrlPlaylist, Mp4, <<"H", "i", "g", "h">>>>,
     <<UrlSingle>> \o FourArgs}
    \cup {<<UrlSingle>> \o a : a \in ArgLists}

\* The run enters through main with its command line and environment (the
\* environment is varied under the command lines for a video with at most
\* one optional argument), or through download_playlist or
\* download_single_video with a format and a quality, which may be in no
\* table (into an empty folder, or with the default quality into any of
\* InitialFolders).
InitOpts ==
    /\ entry \in {"main", "download_playlist", "download_single_video"}
    /\ IF entry = "main"
       THEN /\ argv \in OptsArgvs
            /\ env \in IF Len(argv) \in 1..2 /\ argv[1] = UrlSingle
                       THEN Envs ELSE {NoEnv}
            /\ url = IF argv = <<>> THEN None ELSE argv[1]
            /\ file_format = None
            /\ quality = None
            /\ files = <<>>
       ELSE /\ env = NoEnv
            /\ argv = <<>>
            /\ url \in {UrlPlaylist, UrlOtherHost}
            /\ file_format \in {Mp3, Mp4}
            /\ quality \in Tiers \cup {Ultra}
            /\ files \in IF quality = Medium THEN InitialFolders(file_format)
                         ELSE {<<>>}
    /\ output_folder = None
    /\ Fresh

SpecOpts == InitOpts /\ [][Next]_vars

\* ----------------------------------------------------------------- claims
N == total_tracks
Summarised == pc = "exit" /\ outcome = "summary"
\* entries of the collection that are missing or have no title
Untitled == Cardinality({k \in 1..Len(info.entries) : ~Titled(info.entries[k])})
\* every file of the folder was produced by this run
StartedEmpty == \A n \in DOMAIN files : files[n].from # 0

\* C1: at the final summary of download_playlist,
\* downloaded_count + skipped_count + error_count equals the collection's size.
C1_CountsSumToN ==
    Summarised => downloaded_count + skipped_count + error_count = N

\* C2: when a run downloaded every item of a collection and the same
\* collection is run again against the same folder, the second run's summary
\* has skipped_count = N and downloaded_count = 0.
C2_SecondRunSkipsAll ==
    (previous.ran /\ Summarised /\ info.entries = previous.entries)
        => (skipped_count = N /\ downloaded_count = 0)

\* C3: no exception raised while an item is processed leaves download_playlist.
C3_NoItemExceptionEscapes == raised # "Exception"

\* C4: in a run into an empty folder where every titled entry's transfer
\* succeeded, the summary counts the titled entries as downloaded, the untitled
\* ones as errors and none as skipped, and a transfer was attempted for the
\* titled entries only.
C4_UntitledCountedAsErrors ==
    (Summarised /\ StartedEmpty /\ succeeded = N - Untitled)
        => /\ downloaded_count = N - Untitled
           /\ error_count = Untitled
           /\ skipped_count = 0
           /\ calls.transfer = N - Untitled

\* C4's case: the three-entry collection whose second entry has no title
\* ends with 2 downloaded, 1 error, 0 skipped.
C4_Witness ==
    /\ Summarised /\ StartedEmpty
    /\ info.entries = ThreeEntries
    /\ succeeded = 2
    /\ downloaded_count = 2 /\ error_count = 1 /\ skipped_count = 0

\* The loop is at a titled entry whose expected file, two-digit index, " - ",
\* sanitized title, ".", format, is in the folder.
ExpectedFileExists ==
    /\ AtItem
    /\ Titled(Cur)
    /\ IndexOf(Cur) # NoneInt
    /\ (Format02d(IndexOf(Cur)) \o <<" ", "-", " ">> \o sanitize_filename(Cur.title)
            \o <<".">> \o file_format) \in DOMAIN files

\* C5: an item whose expected file exists when its turn comes is counted as
\* skipped, the other counters keep their values, and neither the transfer
\* nor the tagging collaborator is called for it before the loop takes the
\* next item (unless the run is interrupted at that point).
C5_ExistingFileSkipped ==
    [][/\ ExpectedFileExists =>
          \/ pc' \in {"main_except", "exit"} /\ raised' = "KeyboardInterrupt"
          \/ /\ skipped_count' = skipped_count + 1
             /\ downloaded_count' = downloaded_count
             /\ error_count' = error_count
             /\ calls' = calls
             /\ files' = files
             /\ pc' = "update" /\ pos' = pos
              \* the bar is advanced and the loop takes the next item
       /\ pc = "update" =>
          \/ pc' \in {"main_except", "exit"} /\ raised' = "KeyboardInterrupt"
          \/ /\ skipped_count' = skipped_count
             /\ downloaded_count' = downloaded_count
             /\ error_count' = error_count
             /\ calls' = calls
             /\ files' = files
             /\ pc' = "loop" /\ pos' = pos + 1]_vars

\* C5's case: the first item was skipped without any transfer or tagging call.
C5_Witness ==
    /\ pc = "loop" /\ pos = 2
    /\ skipped_count = 1
    /\ calls.transfer = 0 /\ calls.tagging = 0
    /\ expected_name(info.entries[1].title, 1, file_format) \in DOMAIN files

\* C6: with a locator that matches none of the host patterns the run makes no
\* metadata query, no transfer and no tagging call, processes no item, and
\* ends reporting the invalid locator, whichever function it entered through
\* (unless the user interrupts it before the locator is checked: it then ends
\* interrupted, having done as little).
C6_InvalidLocatorDoesNothing ==
    (url # None /\ ~validate_youtube_url(url))
        => /\ calls = NoCalls
           /\ pos = 0 /\ info = NoInfo
           /\ downloaded_count = 0 /\ skipped_count = 0 /\ error_count = 0
           /\ pc \in {entry, "exit"}
           /\ (pc = "exit" /\ raised # "KeyboardInterrupt")
                 => outcome = "InvalidLocator"

\* C6's case: download_playlist was entered with a locator of another host
\* and returned.
C6_Witness ==
    /\ entry = "download_playlist" /\ url = UrlOtherHost
    /\ pc = "exit" /\ outcome = "InvalidLocator"

\* C7: a run started by main that ends with a run-level error (invalid
\* locator, metadata unavailable) exits non-zero.
C7_RunLevelErrorExitsNonZero ==
    (entry = "main" /\ pc = "exit"
        /\ outcome \in {"InvalidLocator", "MetadataUnavailable"})
        => exitCode # 0

\* C8: a run started by main whose metadata resolved ends, unless the user
\* interrupts it, with the summary and exit status 0.
C8_ResolvedRunExitsZero ==
    (entry = "main" /\ pc = "exit" /\ info.status = "ok"
        /\ raised # "KeyboardInterrupt")
        => (outcome \in {"summary", "completed"} /\ exitCode = 0)

\* C9: the metadata query is made once per run, at most once at any time,
\* and when it fails the run ends at once: the loop is never entered, no
\* transfer or tagging call is made and no counter changes.
C9_MetadataOnceAndFatal ==
    /\ calls.metadata <= 1
    /\ pc \in {"loop", "update", "transfer", "locate", "tag", "single",
               "single_transfer", "single_locate", "single_tag"}
          => calls.metadata = 1
    /\ outcome \in {"summary", "completed", "MetadataUnavailable"}
          => calls.metadata = 1
    /\ info.status \in {"raises", "nothing", "no entries"}
          => /\ pc = "exit" /\ outcome = "MetadataUnavailable"
             /\ pos = 0 /\ progress = 0
             /\ calls.transfer = 0 /\ calls.tagging = 0
             /\ downloaded_count = 0 /\ skipped_count = 0 /\ error_count = 0

\* C9's case: the collection's metadata came without entries and the run ended.
C9_Witness ==
    /\ entry = "download_playlist"
    /\ info.status = "no entries"
    /\ pc = "exit" /\ calls.metadata = 1

\* the container of the file before and after a direct tag_mp3 call
TagBefore == IF tagIn.file.has THEN tagIn.file.tag ELSE EmptyTag
TagAfter == tagOut.file.tag
Provided(v) == v # None /\ v # <<>>

\* C10: tag_mp3 writes the track position only when both track_num and
\* total_tracks are given; with either missing the track position stays as it
\* was, and a call that succeeds still writes the title, artist and album it
\* was given.
C10_TrackNeedsIndexAndTotal ==
    pc = "exit" =>
        /\ TagAfter.track_num # TagBefore.track_num
              => tagIn.track_num # NoneInt /\ tagIn.total_tracks # NoneInt
        /\ (tagIn.track_num = NoneInt \/ tagIn.total_tracks = NoneInt)
              => /\ TagAfter.track_num = TagBefore.track_num
                 /\ tagOut.ok =>
                      /\ Provided(tagIn.title) => TagAfter.title = tagIn.title
                      /\ Provided(tagIn.artist) => TagAfter.artist = tagIn.artist
                      /\ Provided(tagIn.album) => TagAfter.album = tagIn.album

\* C10's case: track_num 3 without total_tracks, title, artist and album given.
C10_Witness ==
    /\ pc = "exit" /\ tagOut.ok
    /\ tagIn.track_num = 3 /\ tagIn.total_tracks = NoneInt
    /\ tagIn.title = TitleA /\ TagAfter.title = TitleA
    /\ TagAfter.artist = UnknownArtist /\ TagAfter.album = Album
    /\ TagAfter.track_num = <<>>

\* the characters a sanitized name may hold
Allowed(c) == c \in Letters \cup Digits \cup Numerics \cup {" ", ".", "-", "_"}
\* s without its trailing spaces
Trimmed(s) ==
    LET last == CHOOSE k \in 0..Len(s) :
                    /\ k > 0 => s[k] # " "
                    /\ \A j \in (k + 1)..Len(s) : s[j] = " "
    IN  SubSeq(s, 1, last)
\* name without the characters that are not allowed and without trailing spaces
Stripped(name) == Trimmed(SelectSeq(name, Allowed))

\* C11: for every non-empty name sanitize_filename returns the name without
\* the characters that are not alphanumeric, space, dot, dash or underscore
\* and without trailing whitespace, and never the empty string: a name that
\* this empties comes back as a non-empty placeholder.
C11_SanitizedNeverEmpty ==
    (pc = "exit" /\ arg # None /\ arg # <<>>)
        => /\ Stripped(arg) # <<>> => ret = Stripped(arg)
           /\ ret # <<>>

\* the fixed table: kbps of an audio tier, height ceiling of a video tier
TierKbps(q) == IF q = Low THEN "128" ELSE IF q = Medium THEN "192" ELSE "320"
TierHeight(q) == IF q = Low THEN "480" ELSE IF q = Medium THEN "720" ELSE "1080"

\* C12: for every format and tier, the configuration handed to the transfer
\* collaborator carries the table's value, audio low 128, medium 192, high 320
\* kbps, video low height<=480, medium height<=720, high height<=1080,
\* whether it is built by download_single_video or by download_playlist; and
\* no transfer is started before the configuration is built.
C12_QualityTable ==
    /\ calls.transfer > 0 => ydl_opts # NoOpts
    /\ (ydl_opts # NoOpts /\ quality \in Tiers)
        => /\ file_format = Mp3
                => /\ ydl_opts.preferredquality = <<TierKbps(quality)>>
                   /\ ydl_opts.format = <<"bestaudio/best">>
           /\ file_format = Mp4
                => ydl_opts.format =
                      <<"best[height<=", TierHeight(quality), "]", "/best">>

\* C12's case: a collection run from the command line as mp4 at the high tier
\* is configured with the 1080 ceiling, and a transfer was started with it.
C12_Witness ==
    /\ entry = "main"
    /\ argv = <<UrlPlaylist, Mp4, <<"H", "i", "g", "h">>>>
    /\ calls.transfer > 0
    /\ ~ydl_opts.noplaylist
    /\ ydl_opts.format = <<"best[height<=", "1080", "]", "/best">>

\* C13: a tagging call that fails (it returns leaving the file as it was;
\* a user interrupt inside the call is not a tagging failure) changes none of
\* downloaded_count, skipped_count and error_count, so the item stays counted
\* as the Finished event counted it, and the loop goes on to the next item.
C13_TaggingFailureKeepsCounts ==
    [][(pc = "tag" /\ calls'.tagging = calls.tagging + 1 /\ files' = files
           /\ raised' # "KeyboardInterrupt")
          => /\ downloaded_count' = downloaded_count
             /\ skipped_count' = skipped_count
             /\ error_count' = error_count
             /\ pc' = "loop" /\ pos' = pos + 1]_vars

\* C13's case: the first item was transferred into an empty folder, its
\* Finished event counted it, the tagging call left its file without a tag,
\* and the loop is at the second item with the item counted as downloaded.
C13_Witness ==
    /\ pc = "loop" /\ pos = 2 /\ total_tracks = 2
    /\ calls.transfer = 1 /\ calls.tagging = 1
    /\ outtmpl(TitleA, Mp3) \in DOMAIN files
    /\ files[outtmpl(TitleA, Mp3)].from = 1
    /\ ~files[outtmpl(TitleA, Mp3)].has
    /\ downloaded_count = 1 /\ skipped_count = 0 /\ error_count = 0

\* C14: when the transfer has returned and file resolution finds no file for
\* the item, the tagging step is not called for it, the counters keep their
\* values (the item stays counted as downloaded by its Finished event, and no
\* error is counted), and the loop goes on to the next item.
C14_UnlocatableNotTagged ==
    [][(pc = "locate" /\ LocateFile
           /\ find_downloaded_file(DOMAIN files, Cur.title, IndexOf(Cur),
                                   file_format) = {})
          => /\ calls'.tagging = calls.tagging
             /\ downloaded_count' = downloaded_count
             /\ skipped_count' = skipped_count
             /\ error_count' = error_count
             /\ pc' = "loop" /\ pos' = pos + 1]_vars

\* C14's case: the first item's transfer reported Finished once but no file is
\* in the folder; the loop is at the second item, tagging was not called, and
\* the item counts as downloaded, not as an error.
C14_Witness ==
    /\ pc = "loop" /\ pos = 2 /\ file_format = Mp3
    /\ DOMAIN files = {}
    /\ calls.transfer = 1 /\ calls.tagging = 0
    /\ downloaded_count = 1 /\ error_count = 0 /\ skipped_count = 0

\* C15: in a run of download_playlist that ends with an empty folder, every
\* transfer it attempted failed, by raising or by returning without a file:
\* each of them is counted once as an error, like the entries that are
\* invalid or have no address, so that every item is counted as an error and
\* none as downloaded, and the loop reached the summary.
C15_FailedTransferCountedAsError ==
    (Summarised /\ DOMAIN files = {})
        => /\ error_count = N
           /\ downloaded_count = 0

\* C16: a step of the progress hook, for a Downloading or a Finished event,
\* leaves downloaded_count, skipped_count and error_count unchanged.
C16_HookChangesNoCounter ==
    [][(HookDownloading \/ HookFinished)
          => /\ downloaded_count' = downloaded_count
             /\ skipped_count' = skipped_count
             /\ error_count' = error_count]_vars

\* C17: whenever the loop of download_playlist is between two items, every
\* item handled so far has added exactly one to exactly one of the three
\* counters: their sum is the number of items handled.
C17_OneOutcomePerItem ==
    (pc = "loop" /\ info.status = "ok")
        => downloaded_count + skipped_count + error_count = pos - 1

\* C18: download_single_video does not call the transfer collaborator when
\* the folder already holds the file named sanitized title, ".", format.
C18_SingleGuardBeforeTransfer ==
    [][(pc = "single"
           /\ (sanitize_filename(info.title) \o <<".">> \o file_format) \in DOMAIN files)
          => calls'.transfer = calls.transfer]_vars

\* the loop of download_playlist is running
InLoop == pc \in {"loop", "update", "transfer", "locate", "tag"}

\* C19: the loop takes the items in source order, one at a time: its position
\* starts at the first item and only moves to the item that follows, when the
\* transfer, file resolution or tagging step of the current item has ended;
\* a transfer starts only at the head of the loop, for the item the loop is
\* at, so never while another transfer is in flight, and at no time have more
\* transfers been started than items reached.
C19_InOrderOneAtATime ==
    /\ [](InLoop => (pos >= 1 /\ calls.transfer <= pos))
    /\ [][/\ (pc = "resolving" /\ InLoop') => pos' = 1
          /\ InLoop =>
               /\ pos' \in {pos, pos + 1}
               /\ pos' = pos + 1 => pc' = "loop"
               /\ calls'.transfer # calls.transfer
                    => /\ pc = "loop" /\ pc' = "transfer"
                       /\ pos' = pos
                       /\ calls'.transfer = calls.transfer + 1
               /\ (pc = "transfer" /\ pc' # "transfer")
                    => pc' \in {"locate", "loop", "main_except", "exit"}]_vars

\* C19's case: the second item's transfer is in flight after the first item
\* was transferred, resolved and tagged.
C19_Witness ==
    /\ pc = "transfer" /\ pos = 2
    /\ calls.transfer = 2 /\ calls.tagging = 1

\* C20: a user interrupt raised while the loop over the items runs is
\* observed by the run: it leaves the loop there as a KeyboardInterrupt, to
\* main's handlers when main started the run and to the caller otherwise,
\* with no counter changed, so the item is not counted as an error; once the
\* user has interrupted the run no item is transferred or tagged; and a run
\* started by main that was interrupted never exits 0 (it exits 1, or the
\* interrupt leaves main uncaught).
C20_InterruptEndsRun ==
    [][/\ (InLoop /\ ~sigint /\ sigint')
            => /\ raised' = "KeyboardInterrupt"
               /\ pc' = IF entry = "main" THEN "main_except" ELSE "exit"
               /\ entry # "main" => outcome' = "interrupted"
               /\ downloaded_count' = downloaded_count
               /\ skipped_count' = skipped_count
               /\ error_count' = error_count
       /\ sigint
            => /\ calls' = calls /\ pos' = pos /\ files' = files
       /\ (entry = "main" /\ sigint /\ pc' = "exit")
            => /\ exitCode' # 0
               /\ outcome' = "interrupted"]_vars

\* C21: the file that file resolution returned for the current item, and that
\* tag_mp3 is about to be called on with the item's title, artist and track
\* number, was produced by this item's own transfer in this run: it is not
\* the file of another item nor one that was in the folder before the run.
C21_TaggedFileIsOwn ==
    pc = "tag"
        => /\ mp3_path \in DOMAIN files
           /\ files[mp3_path].from = pos
           /\ produced

\* C22: the progress bar is advanced once for every item handled: between two
\* items its position is the number of items handled so far, and at the
\* summary it is the size of the collection.
C22_BarFollowsItems ==
    /\ (pc = "loop" /\ info.status = "ok") => progress = pos - 1
    /\ Summarised => progress = N

====
